---- MODULE Spec2Model ----
(***************************************************************************)
(* Model of ai_tic_tac_toe.py: the TicTacToe game object (board, outcome   *)
(* bookkeeping, minimax search with alpha-beta cutoffs) and the event loop *)
(* of main() that drives it.                                               *)
(*                                                                         *)
(* The game object is the record `game`; every method is an operator that  *)
(* takes the object (`self`) and returns the object after the call,        *)
(* together with the returned value where the method returns one.  The     *)
(* search mutates self.board in place (place, recurse, clear), so the      *)
(* object is threaded through the recursion exactly as the code does.      *)
(***************************************************************************)
EXTENDS Integers, Sequences, FiniteSets, TLC

\* ---------------------------------------------------------------- constants
BOARD_SIZE == 3
WIDTH == 600
HEIGHT == 700
CELL_SIZE == WIDTH \div BOARD_SIZE

\* math.inf: larger than every score the search can return (|score| <= 10).
Inf == 100

\* Python's None for winner (a mark otherwise) and for a move (a pair otherwise).
None == "None"
NoMove == <<>>

\* ---------------------------------------------------------------- bounds
\* Finished games counted by the tallies before New Game is no longer clicked.
MaxGames == 2
\* USEREVENTs the timer can have posted to the event queue and not yet handled.
MaxPending == 1
\* How far outside [0, BOARD_SIZE) the coordinates handed to make_move range.
CoordSlack == 1

Idx == 0..(BOARD_SIZE - 1)
Marks == {"X", "O"}
Coords == (0 - CoordSlack)..(BOARD_SIZE - 1 + CoordSlack)

Max(a, b) == IF a >= b THEN a ELSE b
Min(a, b) == IF a <= b THEN a ELSE b

\* ---------------------------------------------------------------- TicTacToe
EmptyBoard == [i \in Idx |-> [j \in Idx |-> " "]]

\* TicTacToe.__init__
NewGame ==
    [board |-> EmptyBoard,
     current_player |-> "X",
     game_over |-> FALSE,
     winner |-> None,
     last_ai_move |-> NoMove,
     moves_made |-> 0,
     max_moves |-> BOARD_SIZE * BOARD_SIZE,
     player_wins |-> 0,
     ai_wins |-> 0,
     draws |-> 0,
     nodes_explored |-> 0,
     depth_reached |-> 0]

\* reset_game without its last two assignments.
reset_gameKeepsCounters(self) ==
    [self EXCEPT !.board = EmptyBoard,
                 !.current_player = "X",
                 !.game_over = FALSE,
                 !.winner = None,
                 !.last_ai_move = NoMove,
                 !.moves_made = 0]

\* reset_game without the assignment to moves_made.
reset_gameKeepsMovesMade(self) ==
    [self EXCEPT !.board = EmptyBoard,
                 !.current_player = "X",
                 !.game_over = FALSE,
                 !.winner = None,
                 !.last_ai_move = NoMove,
                 !.nodes_explored = 0,
                 !.depth_reached = 0]

\* TicTacToe.reset_game: the tallies are the only fields it does not assign.
reset_game(self) ==
    [self EXCEPT !.board = EmptyBoard,
                 !.current_player = "X",
                 !.game_over = FALSE,
                 !.winner = None,
                 !.last_ai_move = NoMove,
                 !.moves_made = 0,
                 !.nodes_explored = 0,
                 !.depth_reached = 0]

\* check_winner without the second diagonal.
check_winnerOneDiagonal(b, player) ==
    \/ \E i \in Idx : \/ \A j \in Idx : b[i][j] = player
                      \/ \A j \in Idx : b[j][i] = player
    \/ \A i \in Idx : b[i][i] = player

\* TicTacToe.check_winner
check_winner(b, player) ==
    \/ \E i \in Idx : \/ \A j \in Idx : b[i][j] = player
                      \/ \A j \in Idx : b[j][i] = player
    \/ \A i \in Idx : b[i][i] = player
    \/ \A i \in Idx : b[i][BOARD_SIZE - 1 - i] = player

\* The cells in the order of the nested comprehension (i outer, j inner).
RowMajor == [k \in 1..(BOARD_SIZE * BOARD_SIZE) |->
                <<(k - 1) \div BOARD_SIZE, (k - 1) % BOARD_SIZE>>]

\* TicTacToe.get_empty_cells
get_empty_cells(b) == SelectSeq(RowMajor, LAMBDA c : b[c[1]][c[2]] = " ")

\* Python list indexing: -BOARD_SIZE..-1 count from the end, anything else
\* outside [0, BOARD_SIZE) raises IndexError.
IndexOk(i) == (0 - BOARD_SIZE) <= i /\ i < BOARD_SIZE
PyIndex(i) == IF i < 0 THEN i + BOARD_SIZE ELSE i

\* make_move that tests only the cell, not game_over.
make_moveIgnoresOver(self, row, col, player) ==
    IF ~(IndexOk(row) /\ IndexOk(col)) THEN [ret |-> "IndexError", self |-> self]
    ELSE IF self.board[PyIndex(row)][PyIndex(col)] # " " THEN [ret |-> "False", self |-> self]
    ELSE
      LET placed == [self EXCEPT !.board[PyIndex(row)][PyIndex(col)] = player,
                                 !.moves_made = @ + 1]
          judged ==
            IF check_winner(placed.board, player)
            THEN [placed EXCEPT !.game_over = TRUE,
                                !.winner = player,
                                !.player_wins = IF player = "X" THEN @ + 1 ELSE @,
                                !.ai_wins = IF player = "X" THEN @ ELSE @ + 1]
            ELSE IF placed.moves_made = placed.max_moves
            THEN [placed EXCEPT !.game_over = TRUE, !.draws = @ + 1]
            ELSE placed
      IN [ret |-> "True",
          self |-> [judged EXCEPT !.current_player = IF player = "X" THEN "O" ELSE "X"]]

\* make_move without the elif of lines 72-74: a full board does not end the game.
make_moveNoDraw(self, row, col, player) ==
    IF self.game_over THEN [ret |-> "False", self |-> self]
    ELSE IF ~(IndexOk(row) /\ IndexOk(col)) THEN [ret |-> "IndexError", self |-> self]
    ELSE IF self.board[PyIndex(row)][PyIndex(col)] # " " THEN [ret |-> "False", self |-> self]
    ELSE
      LET placed == [self EXCEPT !.board[PyIndex(row)][PyIndex(col)] = player,
                                 !.moves_made = @ + 1]
          judged ==
            IF check_winner(placed.board, player)
            THEN [placed EXCEPT !.game_over = TRUE,
                                !.winner = player,
                                !.player_wins = IF player = "X" THEN @ + 1 ELSE @,
                                !.ai_wins = IF player = "X" THEN @ ELSE @ + 1]
            ELSE placed
      IN [ret |-> "True",
          self |-> [judged EXCEPT !.current_player = IF player = "X" THEN "O" ELSE "X"]]

\* make_move with the tests of lines 65 and 72 in the other order: a ninth
\* mark ends the game as a draw before the line is looked for.
make_moveDrawFirst(self, row, col, player) ==
    IF self.game_over THEN [ret |-> "False", self |-> self]
    ELSE IF ~(IndexOk(row) /\ IndexOk(col)) THEN [ret |-> "IndexError", self |-> self]
    ELSE IF self.board[PyIndex(row)][PyIndex(col)] # " " THEN [ret |-> "False", self |-> self]
    ELSE
      LET placed == [self EXCEPT !.board[PyIndex(row)][PyIndex(col)] = player,
                                 !.moves_made = @ + 1]
          judged ==
            IF placed.moves_made = placed.max_moves
            THEN [placed EXCEPT !.game_over = TRUE, !.draws = @ + 1]
            ELSE IF check_winner(placed.board, player)
            THEN [placed EXCEPT !.game_over = TRUE,
                                !.winner = player,
                                !.player_wins = IF player = "X" THEN @ + 1 ELSE @,
                                !.ai_wins = IF player = "X" THEN @ ELSE @ + 1]
            ELSE placed
      IN [ret |-> "True",
          self |-> [judged EXCEPT !.current_player = IF player = "X" THEN "O" ELSE "X"]]

\* make_move without the assignment to winner of line 67.
make_moveForgetsWinner(self, row, col, player) ==
    IF self.game_over THEN [ret |-> "False", self |-> self]
    ELSE IF ~(IndexOk(row) /\ IndexOk(col)) THEN [ret |-> "IndexError", self |-> self]
    ELSE IF self.board[PyIndex(row)][PyIndex(col)] # " " THEN [ret |-> "False", self |-> self]
    ELSE
      LET placed == [self EXCEPT !.board[PyIndex(row)][PyIndex(col)] = player,
                                 !.moves_made = @ + 1]
          judged ==
            IF check_winner(placed.board, player)
            THEN [placed EXCEPT !.game_over = TRUE,
                                !.player_wins = IF player = "X" THEN @ + 1 ELSE @,
                                !.ai_wins = IF player = "X" THEN @ ELSE @ + 1]
            ELSE IF placed.moves_made = placed.max_moves
            THEN [placed EXCEPT !.game_over = TRUE, !.draws = @ + 1]
            ELSE placed
      IN [ret |-> "True",
          self |-> [judged EXCEPT !.current_player = IF player = "X" THEN "O" ELSE "X"]]

\* TicTacToe.make_move.  ret is "True" or "False" (the returned bool) or
\* "IndexError" (self.board[row][col] raised before anything was assigned).
make_move(self, row, col, player) ==
    IF self.game_over THEN [ret |-> "False", self |-> self]
    ELSE IF ~(IndexOk(row) /\ IndexOk(col)) THEN [ret |-> "IndexError", self |-> self]
    ELSE IF self.board[PyIndex(row)][PyIndex(col)] # " " THEN [ret |-> "False", self |-> self]
    ELSE
      LET placed == [self EXCEPT !.board[PyIndex(row)][PyIndex(col)] = player,
                                 !.moves_made = @ + 1]
          judged ==
            IF check_winner(placed.board, player)
            THEN [placed EXCEPT !.game_over = TRUE,
                                !.winner = player,
                                !.player_wins = IF player = "X" THEN @ + 1 ELSE @,
                                !.ai_wins = IF player = "X" THEN @ ELSE @ + 1]
            ELSE IF placed.moves_made = placed.max_moves
            THEN [placed EXCEPT !.game_over = TRUE, !.draws = @ + 1]
            ELSE placed
      IN [ret |-> "True",
          self |-> [judged EXCEPT !.current_player = IF player = "X" THEN "O" ELSE "X"]]

\* TicTacToe.is_valid_move (defined by the class, called nowhere)
is_valid_move(self, row, col) ==
    /\ 0 <= row /\ row < BOARD_SIZE
    /\ 0 <= col /\ col < BOARD_SIZE
    /\ self.board[row][col] = " "

\* ---------------------------------------------------------------- search
RECURSIVE minimax(_, _, _, _, _)
RECURSIVE MaxLoop(_, _, _, _, _, _, _, _)
RECURSIVE MinLoop(_, _, _, _, _, _, _, _)

\* The maximizing loop with eval_score < max_eval: no candidate ever replaces
\* the running best.
MaxLoopFlipped(self, depth, cells, i, alpha, beta, max_eval, best_move) ==
    IF i > Len(cells) THEN [score |-> max_eval, move |-> best_move, self |-> self]
    ELSE
      LET row == cells[i][1]
          col == cells[i][2]
          sub == minimax([self EXCEPT !.board[row][col] = "O"], depth + 1, FALSE, alpha, beta)
          undone == [sub.self EXCEPT !.board[row][col] = " "]
          better == sub.score < max_eval
          max_eval2 == IF better THEN sub.score ELSE max_eval
          best_move2 == IF better THEN <<row, col>> ELSE best_move
          alpha2 == Max(alpha, sub.score)
      IN IF beta <= alpha2
         THEN [score |-> max_eval2, move |-> best_move2, self |-> undone]
         ELSE MaxLoop(undone, depth, cells, i + 1, alpha2, beta, max_eval2, best_move2)

\* The maximizing loop with eval_score >= max_eval: the last of the equally
\* good candidates wins.
MaxLoopLastWins(self, depth, cells, i, alpha, beta, max_eval, best_move) ==
    IF i > Len(cells) THEN [score |-> max_eval, move |-> best_move, self |-> self]
    ELSE
      LET row == cells[i][1]
          col == cells[i][2]
          sub == minimax([self EXCEPT !.board[row][col] = "O"], depth + 1, FALSE, alpha, beta)
          undone == [sub.self EXCEPT !.board[row][col] = " "]
          better == sub.score >= max_eval
          max_eval2 == IF better THEN sub.score ELSE max_eval
          best_move2 == IF better THEN <<row, col>> ELSE best_move
          alpha2 == Max(alpha, sub.score)
      IN IF beta <= alpha2
         THEN [score |-> max_eval2, move |-> best_move2, self |-> undone]
         ELSE MaxLoop(undone, depth, cells, i + 1, alpha2, beta, max_eval2, best_move2)

\* The maximizing branch's for loop from its i-th candidate on; max_eval and
\* best_move are the running best, alpha the running bound.
MaxLoop(self, depth, cells, i, alpha, beta, max_eval, best_move) ==
    IF i > Len(cells) THEN [score |-> max_eval, move |-> best_move, self |-> self]
    ELSE
      LET row == cells[i][1]
          col == cells[i][2]
          sub == minimax([self EXCEPT !.board[row][col] = "O"], depth + 1, FALSE, alpha, beta)
          undone == [sub.self EXCEPT !.board[row][col] = " "]
          better == sub.score > max_eval
          max_eval2 == IF better THEN sub.score ELSE max_eval
          best_move2 == IF better THEN <<row, col>> ELSE best_move
          alpha2 == Max(alpha, sub.score)
      IN IF beta <= alpha2
         THEN [score |-> max_eval2, move |-> best_move2, self |-> undone]
         ELSE MaxLoop(undone, depth, cells, i + 1, alpha2, beta, max_eval2, best_move2)

\* The minimizing loop with the cutoff test inverted (alpha <= beta).
MinLoopInvertedCut(self, depth, cells, i, alpha, beta, min_eval, best_move) ==
    IF i > Len(cells) THEN [score |-> min_eval, move |-> best_move, self |-> self]
    ELSE
      LET row == cells[i][1]
          col == cells[i][2]
          sub == minimax([self EXCEPT !.board[row][col] = "X"], depth + 1, TRUE, alpha, beta)
          undone == [sub.self EXCEPT !.board[row][col] = " "]
          better == sub.score < min_eval
          min_eval2 == IF better THEN sub.score ELSE min_eval
          best_move2 == IF better THEN <<row, col>> ELSE best_move
          beta2 == Min(beta, sub.score)
      IN IF alpha <= beta2
         THEN [score |-> min_eval2, move |-> best_move2, self |-> undone]
         ELSE MinLoop(undone, depth, cells, i + 1, alpha, beta2, min_eval2, best_move2)

\* The minimizing loop breaking out before the cell is cleared.
MinLoopCutBeforeClear(self, depth, cells, i, alpha, beta, min_eval, best_move) ==
    IF i > Len(cells) THEN [score |-> min_eval, move |-> best_move, self |-> self]
    ELSE
      LET row == cells[i][1]
          col == cells[i][2]
          sub == minimax([self EXCEPT !.board[row][col] = "X"], depth + 1, TRUE, alpha, beta)
          undone == [sub.self EXCEPT !.board[row][col] = " "]
          better == sub.score < min_eval
          min_eval2 == IF better THEN sub.score ELSE min_eval
          best_move2 == IF better THEN <<row, col>> ELSE best_move
          beta2 == Min(beta, sub.score)
      IN IF beta2 <= alpha
         THEN [score |-> min_eval2, move |-> best_move2, self |-> sub.self]
         ELSE MinLoop(undone, depth, cells, i + 1, alpha, beta2, min_eval2, best_move2)

\* MinLoop passing depth + 2 to the recursive call.
MinLoopDeeper(self, depth, cells, i, alpha, beta, min_eval, best_move) ==
    IF i > Len(cells) THEN [score |-> min_eval, move |-> best_move, self |-> self]
    ELSE
      LET row == cells[i][1]
          col == cells[i][2]
          sub == minimax([self EXCEPT !.board[row][col] = "X"], depth + 2, TRUE, alpha, beta)
          undone == [sub.self EXCEPT !.board[row][col] = " "]
          better == sub.score < min_eval
          min_eval2 == IF better THEN sub.score ELSE min_eval
          best_move2 == IF better THEN <<row, col>> ELSE best_move
          beta2 == Min(beta, sub.score)
      IN IF beta2 <= alpha
         THEN [score |-> min_eval2, move |-> best_move2, self |-> undone]
         ELSE MinLoop(undone, depth, cells, i + 1, alpha, beta2, min_eval2, best_move2)

\* The minimizing branch's for loop from its i-th candidate on.
MinLoop(self, depth, cells, i, alpha, beta, min_eval, best_move) ==
    IF i > Len(cells) THEN [score |-> min_eval, move |-> best_move, self |-> self]
    ELSE
      LET row == cells[i][1]
          col == cells[i][2]
          sub == minimax([self EXCEPT !.board[row][col] = "X"], depth + 1, TRUE, alpha, beta)
          undone == [sub.self EXCEPT !.board[row][col] = " "]
          better == sub.score < min_eval
          min_eval2 == IF better THEN sub.score ELSE min_eval
          best_move2 == IF better THEN <<row, col>> ELSE best_move
          beta2 == Min(beta, sub.score)
      IN IF beta2 <= alpha
         THEN [score |-> min_eval2, move |-> best_move2, self |-> undone]
         ELSE MinLoop(undone, depth, cells, i + 1, alpha, beta2, min_eval2, best_move2)

\* minimax scoring a win of X like a win of O.
minimaxSameScore(self, depth, is_maximizing, alpha, beta) ==
    LET counted == [self EXCEPT !.nodes_explored = @ + 1,
                                !.depth_reached = Max(@, depth)]
    IN IF check_winner(counted.board, "O")
       THEN [score |-> 10 - depth, move |-> NoMove, self |-> counted]
       ELSE IF check_winner(counted.board, "X")
       THEN [score |-> 10 - depth, move |-> NoMove, self |-> counted]
       ELSE IF get_empty_cells(counted.board) = <<>>
       THEN [score |-> 0, move |-> NoMove, self |-> counted]
       ELSE IF is_maximizing
       THEN MaxLoop(counted, depth, get_empty_cells(counted.board), 1, alpha, beta, 0 - Inf, NoMove)
       ELSE MinLoop(counted, depth, get_empty_cells(counted.board), 1, alpha, beta, Inf, NoMove)

\* minimax counting every node twice.
minimaxCountsTwice(self, depth, is_maximizing, alpha, beta) ==
    LET counted == [self EXCEPT !.nodes_explored = @ + 2,
                                !.depth_reached = Max(@, depth)]
    IN IF check_winner(counted.board, "O")
       THEN [score |-> 10 - depth, move |-> NoMove, self |-> counted]
       ELSE IF check_winner(counted.board, "X")
       THEN [score |-> depth - 10, move |-> NoMove, self |-> counted]
       ELSE IF get_empty_cells(counted.board) = <<>>
       THEN [score |-> 0, move |-> NoMove, self |-> counted]
       ELSE IF is_maximizing
       THEN MaxLoop(counted, depth, get_empty_cells(counted.board), 1, alpha, beta, 0 - Inf, NoMove)
       ELSE MinLoop(counted, depth, get_empty_cells(counted.board), 1, alpha, beta, Inf, NoMove)

\* TicTacToe.minimax
minimax(self, depth, is_maximizing, alpha, beta) ==
    LET counted == [self EXCEPT !.nodes_explored = @ + 1,
                                !.depth_reached = Max(@, depth)]
    IN IF check_winner(counted.board, "O")
       THEN [score |-> 10 - depth, move |-> NoMove, self |-> counted]
       ELSE IF check_winner(counted.board, "X")
       THEN [score |-> depth - 10, move |-> NoMove, self |-> counted]
       ELSE IF get_empty_cells(counted.board) = <<>>
       THEN [score |-> 0, move |-> NoMove, self |-> counted]
       ELSE IF is_maximizing
       THEN MaxLoop(counted, depth, get_empty_cells(counted.board), 1, alpha, beta, 0 - Inf, NoMove)
       ELSE MinLoop(counted, depth, get_empty_cells(counted.board), 1, alpha, beta, Inf, NoMove)

\* get_ai_move with the test on move inverted: the first empty cell whenever
\* the search found a move.
get_ai_moveFirstCell(self) ==
    LET found == minimax(self, 0, TRUE, 0 - Inf, Inf)
        cells == get_empty_cells(found.self.board)
    IN IF found.move = NoMove
       THEN [ret |-> found.move, via |-> "move", score |-> found.score, self |-> found.self]
       ELSE [ret |-> cells[1], via |-> "fallback", score |-> found.score, self |-> found.self]

\* get_ai_move zeroing both counters before it searches.
get_ai_moveResetsCounters(self) ==
    LET found == minimax([self EXCEPT !.nodes_explored = 0, !.depth_reached = 0],
                         0, TRUE, 0 - Inf, Inf)
        cells == get_empty_cells(found.self.board)
    IN IF found.move # NoMove
       THEN [ret |-> found.move, via |-> "move", score |-> found.score, self |-> found.self]
       ELSE IF cells # <<>>
       THEN [ret |-> cells[1], via |-> "fallback", score |-> found.score, self |-> found.self]
       ELSE [ret |-> NoMove, via |-> "IndexError", score |-> found.score, self |-> found.self]

\* TicTacToe.get_ai_move.  With no move from the search and no empty cell,
\* get_empty_cells()[0] raises IndexError.  score is the first component of the
\* pair the search returned, which the method drops; via tells which return
\* statement produced ret: the search's move, the fallback, or none (IndexError).
get_ai_move(self) ==
    LET found == minimax(self, 0, TRUE, 0 - Inf, Inf)
        cells == get_empty_cells(found.self.board)
    IN IF found.move # NoMove
       THEN [ret |-> found.move, via |-> "move", score |-> found.score, self |-> found.self]
       ELSE IF cells # <<>>
       THEN [ret |-> cells[1], via |-> "fallback", score |-> found.score, self |-> found.self]
       ELSE [ret |-> NoMove, via |-> "IndexError", score |-> found.score, self |-> found.self]

\* ---------------------------------------------------------------- state
VARIABLES
    game,           \* main: game = TicTacToe()
    ai_thinking,    \* main: ai_thinking
    running,        \* main: running
    timer_armed,    \* pygame.time.set_timer(USEREVENT, ...) is set to a nonzero period
    pending,        \* USEREVENTs posted by the timer, waiting in the event queue
    call,           \* the last method call made on the object directly, and what it returned
    followed        \* every successful move of the current game was the search's move

vars == <<game, ai_thinking, running, timer_armed, pending, call, followed>>
loop == <<ai_thinking, running, timer_armed, pending>>

NoCall == [op |-> "none", ret |-> "none", move |-> NoMove, score |-> 0]

Init ==
    /\ game = NewGame
    /\ ai_thinking = FALSE
    /\ running = TRUE
    /\ timer_armed = FALSE
    /\ pending = 0
    /\ call = NoCall
    /\ followed = TRUE

Tallied(g) == g.player_wins + g.ai_wins + g.draws

\* ---------------------------------------------------------------- main()
\* The cells a click inside the window can map to: col = x // CELL_SIZE,
\* row = y // CELL_SIZE with 0 <= x < WIDTH, 0 <= y < HEIGHT.
ClickRows == 0..((HEIGHT - 1) \div CELL_SIZE)
ClickCols == 0..((WIDTH - 1) \div CELL_SIZE)

\* pygame.QUIT, or MOUSEBUTTONDOWN over the Quit button.  running is read only
\* by the while test, after the for loop has handled the events it fetched
\* with this one, so no handler below is guarded by it.
Quit ==
    /\ running
    /\ running' = FALSE
    /\ UNCHANGED <<game, ai_thinking, timer_armed, pending, call, followed>>

\* MOUSEBUTTONDOWN over the New Game button.  The timer is left as it is.
ResetClick ==
    /\ Tallied(game) < MaxGames
    /\ game' = reset_game(game)
    /\ ai_thinking' = FALSE
    /\ UNCHANGED <<running, timer_armed, pending, call, followed>>

\* The board-click branch without the tests on current_player and ai_thinking.
BoardClickAnyTurn(row, col) ==
    /\ IF ~game.game_over
          /\ 0 <= row /\ row < BOARD_SIZE /\ 0 <= col /\ col < BOARD_SIZE
       THEN \E moved \in {make_move(game, row, col, "X")} :
               /\ game' = moved.self
               /\ IF moved.ret = "True"
                  THEN ai_thinking' = TRUE /\ timer_armed' = TRUE
                  ELSE UNCHANGED <<ai_thinking, timer_armed>>
       ELSE UNCHANGED <<game, ai_thinking, timer_armed>>
    /\ UNCHANGED <<running, pending, call, followed>>

\* The board-click branch without the set_timer call of line 283.
BoardClickNoTimer(row, col) ==
    /\ IF ~game.game_over /\ game.current_player = "X" /\ ~ai_thinking
          /\ 0 <= row /\ row < BOARD_SIZE /\ 0 <= col /\ col < BOARD_SIZE
       THEN \E moved \in {make_move(game, row, col, "X")} :
               /\ game' = moved.self
               /\ IF moved.ret = "True"
                  THEN ai_thinking' = TRUE /\ UNCHANGED timer_armed
                  ELSE UNCHANGED <<ai_thinking, timer_armed>>
       ELSE UNCHANGED <<game, ai_thinking, timer_armed>>
    /\ UNCHANGED <<running, pending, call, followed>>

\* MOUSEBUTTONDOWN anywhere else, the pointer over cell (row, col).
BoardClick(row, col) ==
    /\ IF ~game.game_over /\ game.current_player = "X" /\ ~ai_thinking
          /\ 0 <= row /\ row < BOARD_SIZE /\ 0 <= col /\ col < BOARD_SIZE
       THEN \E moved \in {make_move(game, row, col, "X")} :
               /\ game' = moved.self
               /\ IF moved.ret = "True"
                  THEN ai_thinking' = TRUE /\ timer_armed' = TRUE
                  ELSE UNCHANGED <<ai_thinking, timer_armed>>
       ELSE UNCHANGED <<game, ai_thinking, timer_armed>>
    /\ UNCHANGED <<running, pending, call, followed>>

\* The armed timer posts a USEREVENT to the queue.
TimerPost ==
    /\ timer_armed
    /\ pending < MaxPending
    /\ pending' = pending + 1
    /\ UNCHANGED <<game, ai_thinking, running, timer_armed, call, followed>>

\* The loop takes a USEREVENT from the queue.
UserEvent ==
    /\ pending > 0
    /\ pending' = pending - 1
    /\ IF ai_thinking
       THEN /\ IF ~game.game_over /\ game.current_player = "O"
               THEN \E ai \in {get_ai_move(game)} :
                      \E moved \in {make_move(ai.self, ai.ret[1], ai.ret[2], "O")} :
                        game' = [moved.self EXCEPT !.last_ai_move = ai.ret]
               ELSE UNCHANGED game
            /\ ai_thinking' = FALSE
            /\ timer_armed' = FALSE
       ELSE UNCHANGED <<game, ai_thinking, timer_armed>>
    /\ UNCHANGED <<running, call, followed>>

Next ==
    \/ Quit
    \/ ResetClick
    \/ \E row \in ClickRows, col \in ClickCols : BoardClick(row, col)
    \/ TimerPost
    \/ UserEvent

Spec == Init /\ [][Next]_vars

\* The loop while it runs: a timer set with set_timer(USEREVENT, 500) posts its
\* event, and the for loop over pygame.event.get() takes every event posted.
\* Nothing is promised once running is False: the while loop ends.
\* UserEvent is the one step of Next that shortens the queue, and the step is
\* named here by that effect.
TakesUserEvent == pending > 0 /\ pending' = pending - 1

SpecFair ==
    /\ Init /\ [][Next]_vars
    /\ WF_vars(running /\ TimerPost)
    /\ WF_pending(running /\ TakesUserEvent)

\* ---------------------------------------------------------------- one search
\* The search as a function of the board: the object is drawn from the states
\* make_move calls alone can leave it in with the game still in progress (any
\* marks on the board, no completed line, an empty cell, no search run yet),
\* and get_ai_move is called on it once.
Cells == Idx \X Idx
Boards == [Idx -> [Idx -> Marks \cup {" "}]]
CountMark(b, mark) == Cardinality({c \in Cells : b[c[1]][c[2]] = mark})

\* The object after CountMark(b, "X") + CountMark(b, "O") successful moves that
\* left b; current_player is the mark other than the one placed last.
Played(b) ==
    [NewGame EXCEPT !.board = b,
                    !.moves_made = CountMark(b, "X") + CountMark(b, "O"),
                    !.current_player = IF CountMark(b, "X") > CountMark(b, "O") THEN "O" ELSE "X"]

SearchInputs ==
    {Played(b) : b \in {bb \in Boards : /\ ~check_winner(bb, "X")
                                         /\ ~check_winner(bb, "O")
                                         /\ get_empty_cells(bb) # <<>>}}

InitSearch ==
    /\ game \in SearchInputs
    /\ ai_thinking = FALSE
    /\ running = TRUE
    /\ timer_armed = FALSE
    /\ pending = 0
    /\ call = NoCall
    /\ followed = TRUE

\* game.get_ai_move()
CallGetAiMove ==
    /\ call.op = "none"
    /\ ~game.game_over
    /\ \E ai \in {get_ai_move(game)} :
         /\ game' = ai.self
         /\ call' = [op |-> "get_ai_move",
                     ret |-> ai.via,
                     move |-> ai.ret,
                     score |-> ai.score]
    /\ UNCHANGED <<loop, followed>>

NextSearch == CallGetAiMove

SpecSearch == InitSearch /\ [][NextSearch]_vars

\* ---------------------------------------------------------------- method calls
\* The object driven by direct calls, the marks taking turns as in main():
\* make_move with any coordinates, reset_game, and a move chosen by the search
\* of the side to move (minimax(0, False) for X, get_ai_move for O) for as long
\* as every move of the game has been chosen that way.
MakeMove(row, col) ==
    /\ \E moved \in {make_move(game, row, col, game.current_player)} :
         /\ game' = moved.self
         /\ call' = [op |-> "make_move", ret |-> moved.ret, move |-> NoMove, score |-> 0]
         /\ followed' = (followed /\ moved.ret # "True")
    /\ UNCHANGED loop

ResetGame ==
    /\ Tallied(game) < MaxGames
    /\ game' = reset_game(game)
    /\ call' = [op |-> "reset_game", ret |-> "none", move |-> NoMove, score |-> 0]
    /\ followed' = TRUE
    /\ UNCHANGED loop

\* _, move = game.minimax(0, False); game.make_move(move[0], move[1], 'X')
XSearchMove ==
    /\ followed
    /\ ~game.game_over
    /\ game.current_player = "X"
    /\ \E found \in {minimax(game, 0, FALSE, 0 - Inf, Inf)} :
         \E moved \in {make_move(found.self, found.move[1], found.move[2], "X")} :
           /\ game' = moved.self
           /\ call' = [op |-> "minimax", ret |-> moved.ret, move |-> found.move,
                       score |-> found.score]
    /\ UNCHANGED <<loop, followed>>

\* move = game.get_ai_move(); game.make_move(move[0], move[1], 'O')
OSearchMove ==
    /\ followed
    /\ ~game.game_over
    /\ game.current_player = "O"
    /\ \E ai \in {get_ai_move(game)} :
         \E moved \in {make_move(ai.self, ai.ret[1], ai.ret[2], "O")} :
           /\ game' = moved.self
           /\ call' = [op |-> "get_ai_move", ret |-> moved.ret, move |-> ai.ret,
                       score |-> ai.score]
    /\ UNCHANGED <<loop, followed>>

NextApi ==
    \/ \E row \in Coords, col \in Coords : MakeMove(row, col)
    \/ ResetGame
    \/ XSearchMove
    \/ OSearchMove

SpecApi == Init /\ [][NextApi]_vars

\* ---------------------------------------------------------------- reference
\* Tic-tac-toe as the claims speak of it, defined without the code's helpers.
Lines ==
    {{<<i, j>> : j \in Idx} : i \in Idx} \cup {{<<j, i>> : j \in Idx} : i \in Idx}
    \cup {{<<i, i>> : i \in Idx}, {<<i, BOARD_SIZE - 1 - i>> : i \in Idx}}
HasLine(b, mark) == \E l \in Lines : \A c \in l : b[c[1]][c[2]] = mark
Free(b) == {c \in Cells : b[c[1]][c[2]] = " "}
Rank(c) == c[1] * BOARD_SIZE + c[2]
SetMax(S) == CHOOSE x \in S : \A y \in S : y <= x
SetMin(S) == CHOOSE x \in S : \A y \in S : x <= y

\* A position a game of alternating marks, X first, can show with O to move.
OToMove(b) == CountMark(b, "X") = CountMark(b, "O") + 1

\* Plain minimax, no cutoffs: the value of b at the given depth, O maximizing.
RECURSIVE PlainValue(_, _, _)
PlainValue(b, depth, is_maximizing) ==
    IF HasLine(b, "O") THEN 10 - depth
    ELSE IF HasLine(b, "X") THEN depth - 10
    ELSE IF Free(b) = {} THEN 0
    ELSE LET vals == {PlainValue([b EXCEPT ![c[1]][c[2]] = IF is_maximizing THEN "O" ELSE "X"],
                                 depth + 1, ~is_maximizing) : c \in Free(b)}
         IN IF is_maximizing THEN SetMax(vals) ELSE SetMin(vals)

\* The nodes plain minimax visits below and including b.
RECURSIVE PlainNodes(_, _)
PlainNodes(b, is_maximizing) ==
    IF HasLine(b, "O") \/ HasLine(b, "X") \/ Free(b) = {} THEN 1
    ELSE LET n == [c \in Free(b) |->
                     PlainNodes([b EXCEPT ![c[1]][c[2]] = IF is_maximizing THEN "O" ELSE "X"],
                                ~is_maximizing)]
             RECURSIVE Sum(_)
             Sum(S) == IF S = {} THEN 0
                       ELSE LET c == CHOOSE x \in S : TRUE IN n[c] + Sum(S \ {c})
         IN 1 + Sum(Free(b))

\* The first cell in row-major order among the empty cells of b whose plain
\* minimax value, O placed there, is the largest.
FirstBest(b) ==
    LET val == [c \in Free(b) |-> PlainValue([b EXCEPT ![c[1]][c[2]] = "O"], 1, FALSE)]
        best == SetMax({val[c] : c \in Free(b)})
        firsts == {c \in Free(b) : val[c] = best /\ \A d \in Free(b) : val[d] = best => Rank(c) <= Rank(d)}
    IN CHOOSE c \in firsts : TRUE

\* The cells of b that complete a line of three for mark.
Winning(b, mark) == {c \in Free(b) : HasLine([b EXCEPT ![c[1]][c[2]] = mark], mark)}

IsCell(m) == Len(m) = 2 /\ m[1] \in Idx /\ m[2] \in Idx

\* ---------------------------------------------------------------- claims

\* C1: from the empty board, X moving by minimax(0, False) and O by get_ai_move,
\* each move applied with make_move, every such move places a mark, and the
\* game ends as a draw: the ninth mark is placed, winner stays None, draws
\* grows by one and no win tally changes.
C1_SelfPlayEndsInDraw ==
    [][/\ call'.op \in {"minimax", "get_ai_move"}
         => (call'.ret = "True" /\ game'.moves_made = game.moves_made + 1)
       /\ (followed' /\ game'.game_over)
         => /\ game'.winner = None
            /\ game'.moves_made = BOARD_SIZE * BOARD_SIZE
            /\ ~HasLine(game'.board, "X") /\ ~HasLine(game'.board, "O")
            /\ ~game.game_over
                 => /\ game'.draws = game.draws + 1
                    /\ game'.player_wins = game.player_wins
                    /\ game'.ai_wins = game.ai_wins]_vars

C1_Witness ==
    /\ followed /\ game.game_over /\ game.draws > 0
    /\ call.op = "minimax" /\ game.moves_made = BOARD_SIZE * BOARD_SIZE

\* C2: whatever the human clicks, with every O move chosen by get_ai_move in the
\* USEREVENT handler, X never wins: winner is never 'X' and player_wins stays 0.
C2_AiNeverLoses ==
    /\ game.winner # "X"
    /\ game.player_wins = 0
    /\ ~HasLine(game.board, "X")

C2_Witness ==
    /\ game.game_over /\ game.board[1][1] = "X" /\ game.last_ai_move # NoMove
    /\ game.moves_made = BOARD_SIZE * BOARD_SIZE

\* C3: on a board with no completed line and an empty cell, get_ai_move returns
\* the move the search found (not the get_empty_cells()[0] fallback), a pair of
\* coordinates in [0, 3) whose cell is empty; with one empty cell, that cell.
C3_ReturnsEmptyCell ==
    [][call'.op = "get_ai_move"
         => /\ call'.ret = "move"
            /\ IsCell(call'.move)
            /\ call'.move \in Free(game.board)
            /\ Cardinality(Free(game.board)) = 1 => Free(game.board) = {call'.move}]_vars

C3_Witness ==
    /\ call.op = "get_ai_move" /\ call.ret = "move"
    /\ OToMove(game.board) /\ Cardinality(Free(game.board)) > 1
    /\ call.move \in Free(game.board)

\* C4: on a board with no completed line and an empty cell, the score of the
\* root call minimax(0, True) with the beta <= alpha cutoffs equals the plain
\* minimax value of the board.
C4_PruningKeepsScore ==
    [][call'.op = "get_ai_move"
         => call'.score = PlainValue(game.board, 0, TRUE)]_vars

C4_Witness ==
    /\ call.op = "get_ai_move" /\ OToMove(game.board)
    /\ Cardinality(Free(game.board)) = 4
    /\ game.nodes_explored < PlainNodes(game.board, TRUE)
    /\ call.score = PlainValue(game.board, 0, TRUE)

\* C5: on a board with O to move, get_ai_move returns the first cell in
\* row-major order among the empty cells of largest plain minimax value.
C5_FirstBestInRowMajor ==
    [][(call'.op = "get_ai_move" /\ OToMove(game.board))
         => call'.move = FirstBest(game.board)]_vars

C5_Witness ==
    /\ call.op = "get_ai_move" /\ OToMove(game.board)
    /\ call.move = FirstBest(game.board)
    /\ \E c \in Free(game.board) :
         /\ Rank(c) > Rank(call.move)
         /\ PlainValue([game.board EXCEPT ![c[1]][c[2]] = "O"], 1, FALSE) = call.score

\* C6: on a board with no completed line where some empty cell completes a
\* line of three O, the search returns such a cell with score 10 - 1 = 9; on
\* the board whose row 0 is O, O, empty and the rest empty it returns (0, 2).
Row0Board == [EmptyBoard EXCEPT ![0][0] = "O", ![0][1] = "O"]

C6_TakesImmediateWin ==
    [][(call'.op = "get_ai_move" /\ Winning(game.board, "O") # {})
         => /\ call'.move \in Winning(game.board, "O")
            /\ call'.score = 10 - 1
            /\ game.board = Row0Board => call'.move = <<0, 2>>]_vars

C6_Witness ==
    /\ call.op = "get_ai_move" /\ game.board = Row0Board
    /\ call.move = <<0, 2>> /\ call.score = 9

\* C7: get_ai_move leaves the board cell for cell as it was, cutoffs or not, and
\* leaves moves_made, current_player, game_over, winner and the tallies alone:
\* the only fields it changes are nodes_explored and depth_reached.
C7_SearchRestoresBoard ==
    [][call'.op = "get_ai_move"
         => game' = [game EXCEPT !.nodes_explored = game'.nodes_explored,
                                 !.depth_reached = game'.depth_reached]]_vars

C7_Witness ==
    /\ call.op = "get_ai_move"
    /\ Cardinality(Free(game.board)) = 4
    /\ game.nodes_explored < PlainNodes(game.board, TRUE)

\* C8: make_move on an occupied cell, or with row or col outside [0, 3),
\* returns False and changes nothing.
Invalid(b, row, col) ==
    IF row \in Idx /\ col \in Idx THEN b[row][col] # " " ELSE TRUE

C8_InvalidMoveRejected ==
    [][\A row \in Coords, col \in Coords :
         (MakeMove(row, col) /\ Invalid(game.board, row, col))
           => (call'.ret = "False" /\ game' = game)]_vars

\* C9: once game_over is true, make_move with any cell and mark returns False
\* and changes no field, and a step of the event loop either leaves the object
\* as it is or is reset_game, which puts the game back in progress.
C9_OverUntilReset ==
    [][game.game_over
         => /\ \A row \in Coords, col \in Coords, player \in Marks :
                 make_move(game, row, col, player) = [ret |-> "False", self |-> game]
            /\ \/ game' = game
               \/ ResetClick /\ ~game'.game_over]_vars

C9_Witness ==
    /\ game.game_over /\ ai_thinking /\ pending > 0 /\ running

\* C10: reset_game empties the board, gives the turn to X, clears game_over,
\* winner, last_ai_move, moves_made, nodes_explored and depth_reached, and
\* keeps player_wins, ai_wins and draws as they were.
C10_ResetKeepsTallies ==
    [][ResetClick
         => /\ game'.board = EmptyBoard
            /\ game'.current_player = "X"
            /\ game'.game_over = FALSE
            /\ game'.winner = None
            /\ game'.last_ai_move = NoMove
            /\ game'.moves_made = 0
            /\ game'.nodes_explored = 0
            /\ game'.depth_reached = 0
            /\ game'.player_wins = game.player_wins
            /\ game'.ai_wins = game.ai_wins
            /\ game'.draws = game.draws]_vars

C10_Witness ==
    /\ game.board = EmptyBoard /\ game.moves_made = 0 /\ ~game.game_over
    /\ game.nodes_explored = 0 /\ Tallied(game) > 0

\* C11: a successful make_move toggles the turn only when the game stays in
\* progress: when the move ends the game (a line, or the board full)
\* current_player keeps the value it had before the move, and otherwise it
\* becomes the other mark.
C11_TurnKeptAtGameEnd ==
    [][call'.ret = "True"
         => IF game'.game_over
            THEN game'.current_player = game.current_player
            ELSE game'.current_player # game.current_player]_vars

\* C12: in the event loop a search runs (nodes_explored grows) only in the
\* USEREVENT handler from a state with game_over false, current_player 'O', no
\* completed line and an empty cell; and whenever the handler's test for
\* calling get_ai_move holds (ai_thinking, not game_over, current_player 'O')
\* the board has no completed line and has an empty cell, whatever the order
\* of board clicks, New Game clicks and USEREVENTs.
SearchPrecondition(g) ==
    /\ ~g.game_over
    /\ g.current_player = "O"
    /\ ~HasLine(g.board, "X") /\ ~HasLine(g.board, "O")
    /\ Free(g.board) # {}

C12_SearchOnlyWhenDue ==
    [][/\ game'.nodes_explored > game.nodes_explored
            => (ai_thinking /\ pending > 0 /\ SearchPrecondition(game))
       /\ (ai_thinking' /\ ~game'.game_over /\ game'.current_player = "O")
            => SearchPrecondition(game')]_vars

\* A search has run in a game started with New Game while a USEREVENT of the
\* game before was still queued.
C12_Witness ==
    /\ Tallied(game) > 0 /\ ~game.game_over
    /\ game.nodes_explored > 0 /\ game.last_ai_move # NoMove
    /\ game.current_player = "X" /\ ~ai_thinking

\* C13: in every state a sequence of make_move calls can reach, a make_move
\* call on any cell with either mark changes the tallies as follows:
\* a successful move that completes a line of its mark adds 1 to that mark's
\* win tally and nothing to the others, also when it fills the ninth cell; a
\* successful move that fills the board without a line adds 1 to draws only;
\* any other call leaves the three tallies as they were; and a call that
\* ends the game adds exactly 1 to the sum of the tallies.
TallyChange(g, h) ==
    <<h.player_wins - g.player_wins, h.ai_wins - g.ai_wins, h.draws - g.draws>>

TallyRule(g, moved, player) ==
    /\ TallyChange(g, moved.self) =
         IF moved.ret = "True" /\ HasLine(moved.self.board, player)
         THEN IF player = "X" THEN <<1, 0, 0>> ELSE <<0, 1, 0>>
         ELSE IF moved.ret = "True" /\ Free(moved.self.board) = {}
         THEN <<0, 0, 1>>
         ELSE <<0, 0, 0>>
    /\ (moved.self.game_over /\ ~g.game_over) => Tallied(moved.self) = Tallied(g) + 1
    /\ g.game_over => Tallied(moved.self) = Tallied(g)

C13_OneTallyPerGame ==
    \A row \in Idx, col \in Idx, player \in Marks :
        TallyRule(game, make_move(game, row, col, player), player)

\* X has completed a line with the ninth mark: player_wins counts it and
\* draws does not.
C13_Witness ==
    /\ game.game_over /\ game.winner = "X"
    /\ HasLine(game.board, "X") /\ Free(game.board) = {}
    /\ game.player_wins = 1 /\ game.draws = 0 /\ game.ai_wins = 0
    /\ call.op = "make_move" /\ call.ret = "True"

\* C14: after every call that changes the object (make_move, reset_game, or a
\* search followed by make_move) moves_made is the number of non-empty cells and is
\* at most 9; a successful make_move turns exactly one empty cell into the
\* mark it was given and changes no other cell; and with moves_made at 9 the
\* game is over, so a game ends within 9 successful moves.
MovesCounted(g) ==
    /\ g.moves_made = Cardinality(Cells \ Free(g.board))
    /\ g.moves_made <= BOARD_SIZE * BOARD_SIZE
    /\ g.moves_made = BOARD_SIZE * BOARD_SIZE => g.game_over

C14_OneMarkPerMove ==
    [][/\ game' # game => MovesCounted(game')
       /\ call'.ret = "True"
            => /\ game'.moves_made = game.moves_made + 1
               /\ \E c \in Free(game.board) :
                    game'.board = [game.board EXCEPT ![c[1]][c[2]] = game.current_player]
       /\ call'.ret # "True"
            => (game'.board = game.board \/ game'.board = EmptyBoard)]_vars

\* O's fourth mark, chosen by a search, has been placed and the game goes on.
C14_Witness ==
    /\ call.op = "get_ai_move" /\ call.ret = "True"
    /\ game.moves_made = BOARD_SIZE * BOARD_SIZE - 1 /\ ~game.game_over
    /\ game.nodes_explored > 0

\* C15: in every state of the event loop the stored outcome is the one the
\* board shows: game_over holds exactly when some mark has a complete row,
\* column or diagonal or no cell is empty; winner is m exactly when
\* check_winner(m) holds; winner is None with game_over exactly when the board
\* is full without a line; and X and O never both have a line.
C15_OutcomeMatchesBoard ==
    /\ game.game_over
         <=> (HasLine(game.board, "X") \/ HasLine(game.board, "O") \/ Free(game.board) = {})
    /\ \A m \in Marks : (game.winner = m) <=> check_winner(game.board, m)
    /\ (game.winner = None /\ game.game_over)
         <=> (Free(game.board) = {} /\ ~HasLine(game.board, "X") /\ ~HasLine(game.board, "O"))
    /\ ~(HasLine(game.board, "X") /\ HasLine(game.board, "O"))

\* O has completed a line in the USEREVENT handler with cells still empty.
C15_Witness ==
    /\ game.game_over /\ game.winner = "O" /\ check_winner(game.board, "O")
    /\ Free(game.board) # {} /\ game.last_ai_move # NoMove /\ ~ai_thinking

\* C16: on every board with no completed line and an empty cell, the nodes one
\* get_ai_move call visits (the growth of nodes_explored over the call) are at
\* most the nodes the same search visits without cutoffs.
C16_PruningVisitsNoMore ==
    [][call'.op = "get_ai_move"
         => /\ game'.nodes_explored > game.nodes_explored
            /\ game'.nodes_explored - game.nodes_explored <= PlainNodes(game.board, TRUE)]_vars

\* A search from a position of alternating play with six empty cells that
\* cut branches off.
C16_Witness ==
    /\ call.op = "get_ai_move" /\ OToMove(game.board)
    /\ Cardinality(Free(game.board)) = 6
    /\ game.nodes_explored < PlainNodes(game.board, TRUE)

\* C17: the counters accumulate over a game.  A step of the event loop in
\* which O's mark is placed (get_ai_move, then make_move) adds to
\* nodes_explored the nodes that search visits on its own and leaves
\* depth_reached at the larger of its old value and the depth that search
\* reaches on its own (compared for the second and later searches of a game:
\* the first starts from counters at 0); a New Game click sets both to 0; every other step leaves
\* both as they were.  So after the k-th search of a game nodes_explored is the
\* sum over the k searches, depth_reached the maximum, and neither decreases
\* except by reset_game.
SearchAlone(g) ==
    get_ai_move([g EXCEPT !.nodes_explored = 0, !.depth_reached = 0]).self

C17_CountersAccumulate ==
    [][IF game.current_player = "O" /\ game'.moves_made = game.moves_made + 1
       THEN /\ game'.nodes_explored > game.nodes_explored
            /\ game'.depth_reached >= game.depth_reached
            /\ game.nodes_explored > 0
                 => \E alone \in {SearchAlone(game)} :
                      /\ game'.nodes_explored = game.nodes_explored + alone.nodes_explored
                      /\ game'.depth_reached = Max(game.depth_reached, alone.depth_reached)
       ELSE \/ /\ game'.nodes_explored = game.nodes_explored
               /\ game'.depth_reached = game.depth_reached
            \/ /\ ResetClick
               /\ game'.nodes_explored = 0
               /\ game'.depth_reached = 0]_vars

\* Two searches have run in this game, and depth_reached is that of the
\* first: the second, from five empty cells, reaches depth 5 at most.
C17_Witness ==
    /\ game.moves_made = 4 /\ game.current_player = "X" /\ ~game.game_over
    /\ game.last_ai_move # NoMove
    /\ game.depth_reached > 5
    /\ game.nodes_explored > SearchAlone([game EXCEPT !.board[game.last_ai_move[1]][game.last_ai_move[2]] = " "]).nodes_explored

\* C18: get_ai_move on a board with no completed line and an empty cell returns,
\* and the deepest call of its recursion (depth_reached, from counters at 0)
\* is at depth 1 at least, at most the number of cells empty at the root, and
\* at most 9: each call below the root has one more mark and one more ply.
C18_DepthWithinEmptyCells ==
    [][call'.op = "get_ai_move"
         => /\ call'.ret \in {"move", "fallback"}
            /\ game'.depth_reached >= 1
            /\ game'.depth_reached <= Cardinality(Free(game.board))
            /\ game'.depth_reached <= BOARD_SIZE * BOARD_SIZE]_vars

\* A search that went down to the last empty cell: the board was filled at
\* depth 7 with seven cells empty at the root.
C18_Witness ==
    /\ call.op = "get_ai_move"
    /\ Cardinality(Free(game.board)) = 7
    /\ game.depth_reached = 7

\* C19: under every order of board clicks, New Game clicks, timer posts and
\* USEREVENTs (a New Game click with the timer armed and a USEREVENT of that
\* timer taken after it included) the marks alternate, X first: the board has
\* as many X as O, or one X more; as many while the game is in progress with
\* current_player 'X', one more while it is in progress with current_player
\* 'O'; and a step that places an O starts from a board with one X more than
\* O, so never from a board the human has not moved on since the reset.
Lead(b) == CountMark(b, "X") - CountMark(b, "O")

Alternates(g) ==
    /\ Lead(g.board) \in {0, 1}
    /\ (~g.game_over /\ g.current_player = "X") => Lead(g.board) = 0
    /\ (~g.game_over /\ g.current_player = "O") => Lead(g.board) = 1

C19_MarksAlternate ==
    [][/\ Alternates(game) /\ Alternates(game')
       /\ CountMark(game'.board, "O") > CountMark(game.board, "O")
            => /\ CountMark(game.board, "X") >= 1
               /\ Lead(game.board) = 1
               /\ Lead(game'.board) = 0]_vars

\* New Game was clicked while the timer of the AI's move was armed, and a
\* USEREVENT of that timer is in the queue of the new game.
C19_Witness ==
    /\ game.board = EmptyBoard /\ game.current_player = "X" /\ ~game.game_over
    /\ timer_armed /\ pending > 0 /\ ~ai_thinking

\* C20: while the loop runs, with the armed timer posting its USEREVENT and the
\* loop taking it, a successful human move that leaves the game in progress
\* (current_player 'O', ai_thinking true) is followed by the AI's O with
\* ai_thinking false, or by a reset, unless the loop is quit first; the game is
\* never in progress with current_player 'O' without an AI move pending
\* (ai_thinking true and the timer armed or its event queued); and no step
\* taken with ai_thinking true adds an X.
AwaitingAi == ~game.game_over /\ game.current_player = "O" /\ ai_thinking

Answered ==
    /\ ~ai_thinking
    /\ \/ game.last_ai_move # NoMove /\ Lead(game.board) = 0
       \/ game.board = EmptyBoard

NoAiMovePending ==
    /\ ~game.game_over /\ game.current_player = "O"
    /\ ~(ai_thinking /\ (timer_armed \/ pending > 0))

C20_AiAlwaysAnswers ==
    /\ [](~NoAiMovePending)
    /\ [][ai_thinking => CountMark(game'.board, "X") <= CountMark(game.board, "X")]_vars
    /\ AwaitingAi ~> (Answered \/ ~running)

\* The AI has answered the human's move and the game goes on.
C20_Witness ==
    /\ running /\ ~ai_thinking /\ ~timer_armed /\ ~game.game_over
    /\ game.last_ai_move # NoMove /\ Lead(game.board) = 0
    /\ game.moves_made = 2

====
